---- MODULE Spec2Model ----
(***************************************************************************)
(* VelodyneCapture (src/3rdparty/VelodyneCapture/VelodyneCapture_cloud.h): *)
(* the capture thread capturePCAP, the queue of completed rotations, and   *)
(* the public operations open, close, isRun, retrieve and retrieve_block.  *)
(*                                                                         *)
(* Azimuths are doubles in the source and take half-integer values (the    *)
(* interpolated advance is a difference divided by 2.0).  The model keeps  *)
(* every azimuth doubled, as an integer: last_azimuth, interpolated and    *)
(* the per-slot azimuth are 2 x the source's value, and 36000 appears as   *)
(* 2 * 36000.  Comparisons are unchanged by the doubling.                  *)
(*                                                                         *)
(* Spec has one client thread, SpecConc and LiveConc a controller and a    *)
(* consumer thread; SpecSetup starts before the constructor of             *)
(* VLP16Capture or HDL32ECapture and has open with a transform; SpecPure   *)
(* evaluates the functions of the loop body on arguments of their own.     *)
(***************************************************************************)
EXTENDS Integers, Sequences, FiniteSets, TLC

\* ---------------------------------------------------------------- bounds

\* Number of open() calls a behaviour may make.
MaxOpens == 2

\* The same, in the specification with a consumer thread of its own.
MaxOpensConc == 1

\* The same, in the specification of construction, the constructor's own
\* open() included.
MaxOpensSetup == 2

\* The build's -DMAX_QUEUE_SIZE=N (line 351), when the limit is configured.
MAX_QUEUE_SIZE == 1

\* ------------------------------------------------------- program constants

LASER_PER_FIRING == 32
FIRING_PER_PKT == 12
\* header->len - 42 must be 1206 (line 296)
HeaderBytes == 42
PayloadBytes == 1206
\* azimuth wraps at 36000 hundredths of a degree (line 336)
FullTurn == 36000

SlotsPerPkt == FIRING_PER_PKT * LASER_PER_FIRING

\* The two sensor models: VLP16Capture and HDL32ECapture set MAX_NUM_LASERS.
LaserCounts == {16, 32}

\* ------------------------------------------------------------ packets

\* distance < EPSILON with EPSILON 0.001 and an integer distance: only 0.
BelowEpsilon(distance) == distance < 1

\* A captured packet: pcap header (len, ts) and the DataPacket payload.
\* dist[f][j] is firingData[f].laserReturns[j].distance.
MkPacket(len, sec, usec, rot, zero) ==
    [len |-> len, tv_sec |-> sec, tv_usec |-> usec, sensorType |-> 34,
     rot |-> rot,
     dist |-> [f \in 0..(FIRING_PER_PKT - 1) |->
                 [j \in 0..(LASER_PER_FIRING - 1) |->
                     IF <<f, j>> \in zero THEN 0 ELSE 1 + ((f + j) % 3)]]]

FullLen == HeaderBytes + PayloadBytes

\* Rotational positions of the twelve firing blocks (indexed 1..12 here).
RotAscend  == <<100, 200, 300, 400, 500, 600, 700, 800, 900, 1000, 1100, 1200>>
RotHigh    == <<34000, 34100, 34200, 34300, 34400, 34500, 34600, 34700, 34800,
                34900, 35000, 35900>>
RotWrap    == <<100, 200, 350, 50, 120, 220, 320, 420, 520, 620, 720, 820>>
RotTwoWrap == <<100, 200, 350, 50, 120, 220, 320, 20, 520, 620, 720, 820>>

PktAscend   == MkPacket(FullLen, 7, 5, RotAscend, {})
PktHigh     == MkPacket(FullLen, 7, 5, RotHigh, {<<0, 0>>, <<5, 20>>})
PktLow      == MkPacket(FullLen, 7, 40, RotAscend, {<<0, 0>>, <<2, 3>>})
\* zero-distance returns in the firing block before the wrap
PktWrap     == MkPacket(FullLen, 7, 123456, RotWrap, {<<2, 31>>, <<2, 15>>})
\* zero-distance returns in the slots at and right after the wrap
PktWrapZero == MkPacket(FullLen, 8, 0, RotWrap, {<<3, 0>>, <<3, 1>>})
PktTwoWrap  == MkPacket(FullLen, 7, 5, RotTwoWrap, {})
\* a truncated packet
PktShort    == MkPacket(FullLen - 6, 9, 2, RotWrap, {})
\* a packet of the right size whose sensorType is neither 0x21 nor 0x22
PktBadType  == [MkPacket(FullLen, 8, 7, RotHigh, {}) EXCEPT !.sensorType = 0]

\* The packets of the capture files, by packet id.
Packets ==
    <<PktAscend, PktHigh, PktLow, PktWrap, PktWrapZero, PktTwoWrap, PktShort,
      PktBadType>>

\* The capture files open() can be given: the ids of the packets that
\* pcap_next_ex yields, in order.
Files ==
    << <<1>>,
       <<2, 3>>,
       <<6, 3>>,
       <<5, 8>>,
       <<7, 4>> >>

FileIds == 1..Len(Files)

\* ------------------------------------------------------------ state

VARIABLES
    run,             \* std::atomic_bool run
    thread,          \* std::thread* thread: 0 is nullptr, else the thread's id
    pcap,            \* pcap_t* pcap: 0 is nullptr, else the source's id
    queue,           \* std::queue<PointCloudPtrT> queue, oldest first
    mutex,           \* std::mutex mutex: "free" or the thread holding it
    MAX_NUM_LASERS,  \* int MAX_NUM_LASERS of the base class; 0: not yet assigned
    derived,         \* MAX_NUM_LASERS of the derived class that is constructed
    lut,             \* size of the base class's std::vector<double> lut
    lut_cos,         \* size of the base class's lut_cos
    lut_sin,         \* size of the base class's lut_sin
    transformMatrixPtr, \* Eigen::Matrix4f*: 0 is nullptr, else the matrix's id
    queueLimit,      \* 0: built without MAX_QUEUE_SIZE; else MAX_QUEUE_SIZE
    filename,        \* the capture file open() is given
    pcapFile,        \* the capture file the source pcap reads
    pcapPos,         \* packets pcap_next_ex has delivered from it
    cap,             \* the capture thread: its position and locals; configured
                     \* is the transform set when it was spawned, applied the
                     \* matrix its last point was transformed by (0: none)
    pc,              \* each client thread's position
    cloud,           \* each client's output argument of retrieve
    inOpen,          \* close() was called by open()
    aborted,         \* the process was ended by undefined behaviour
    nOpen,           \* open() calls so far; ids of threads and sources
    unjoined,        \* threads spawned and not joined
    openSrc,         \* capture sources opened and not closed
    nPushed,         \* frames pushed so far; a frame's id is its push number
    result,          \* outcome of the call a client has just returned from
    probe            \* arguments and value of a function evaluated on its own

vars == <<run, thread, pcap, queue, mutex, MAX_NUM_LASERS, derived, lut,
          lut_cos, lut_sin, transformMatrixPtr, queueLimit,
          filename, pcapFile, pcapPos, cap, pc, cloud, inOpen, aborted, nOpen,
          unjoined, openSrc, nPushed, result, probe>>

Clients == {"main", "cons"}

\* float matrix[4][4] (line 275) before anything is stored in it.
Uninitialised == -1

\* No function is being evaluated on its own.
NoProbe == [fn |-> "none"]

\* A null PointCloudPtrT, and what a read of an empty queue's front yields.
NullCloud == [id |-> 0, width |-> 0, stamp |-> 0]
Garbage == [id |-> -1, width |-> 0, stamp |-> 0]

\* ------------------------------------------------- the queue (pure)

\* A push at the wrong end of the queue.
PushAtFront(q, frame) == <<frame>> \o q

\* queue.push( cloud ) (line 348)
Push(q, frame) == Append(q, frame)

\* queue.front() (lines 230, 245)
Front(q) == Head(q)

\* queue.pop() (lines 231, 246)
Pop(q) == Tail(q)

\* A close() that forgets the queue.
SwapKeeps(q) == q

\* std::queue<PointCloudPtrT>().swap( queue ) (line 221): what queue holds
\* after the swap with a new, empty queue.
Swap(q) == <<>>

\* ------------------------------------------------- reconstruction (pure)

RECURSIVE Digits(_)
Digits(n) == IF n < 10 THEN 1 ELSE 1 + Digits(n \div 10)

RECURSIVE Pow10(_)
Pow10(k) == IF k = 0 THEN 1 ELSE 10 * Pow10(k - 1)

\* ss << tv_sec << setw(6) << left << setfill('0') << tv_usec; stoll(ss.str())
\* std::left pads the microseconds on the right up to six characters.
UnixTime(sec, usec) ==
    LET d == Digits(usec)
    IN  IF d < 6 THEN sec * Pow10(6) + usec * Pow10(6 - d)
                 ELSE sec * Pow10(d) + usec

\* 2 x interpolated of lines 311-317
Interpolated(pkt) ==
    IF pkt.rot[2] < pkt.rot[1]
    THEN (pkt.rot[2] + FullTurn) - pkt.rot[1]
    ELSE pkt.rot[2] - pkt.rot[1]

FiringOf(pos) == pos \div LASER_PER_FIRING
LaserOf(pos) == pos % LASER_PER_FIRING

\* An azimuth without the subtraction of lines 336-339.
AzimuthNoReset(pkt, lasers, pos) ==
    2 * pkt.rot[FiringOf(pos) + 1]
    + (IF LaserOf(pos) >= lasers THEN Interpolated(pkt) ELSE 0)

\* 2 x azimuth of lines 325-339 for slot pos = firing_index * 32 + laser_index
Azimuth(pkt, lasers, pos) ==
    LET a == 2 * pkt.rot[FiringOf(pos) + 1]
             + (IF LaserOf(pos) >= lasers THEN Interpolated(pkt) ELSE 0)
    IN  IF a >= 2 * FullTurn THEN a - 2 * FullTurn ELSE a

\* firing_data.laserReturns[laser_index_modulus].distance (lines 327, 357)
Distance(pkt, lasers, pos) == pkt.dist[FiringOf(pos)][LaserOf(pos) % lasers]

\* What the loop body reads of slot pos of packet p: its azimuth and the
\* distance it tests, computed once per packet and laser count.
SlotTable ==
    [p \in DOMAIN Packets |->
       [lasers \in LaserCounts |->
          [pos \in 0..(SlotsPerPkt - 1) |->
             [azimuth |-> Azimuth(Packets[p], lasers, pos),
              distance |-> Distance(Packets[p], lasers, pos)]]]]

Slot(p, lasers, pos) == SlotTable[p][lasers][pos]

\* Lines 357-388: the return of a slot, after the rotation test.  A return
\* below EPSILON leaves the frame and last_azimuth as they are.
ProcessReturn(slot, st) ==
    IF BelowEpsilon(slot.distance)
    THEN st
    ELSE [last_azimuth |-> slot.azimuth, points |-> st.points + 1]

\* Line 342: the rotation is complete at this slot.
RotationComplete(last_azimuth, azimuth) == last_azimuth > azimuth

ScanResult(pos, wrap, st) ==
    [pos |-> pos, wrap |-> wrap, last_azimuth |-> st.last_azimuth,
     points |-> st.points]

\* Lines 323-390 for one slot: the rotation test stops the scan at the slot
\* (the push of line 348 is the caller's next step); else the slot's return
\* is processed and the loops go on to the next slot.
ScanSlot(p, lasers, pos, st) ==
    IF RotationComplete(st.last_azimuth, Slot(p, lasers, pos).azimuth)
    THEN ScanResult(pos, TRUE, st)
    ELSE ScanResult(pos + 1, FALSE, ProcessReturn(Slot(p, lasers, pos), st))

\* The loops of lines 320-391 over the slots lo .. hi-1 in order, up to the
\* first slot at which the rotation test fires.  The range is walked in
\* halves, left half first, which visits the slots in the loops' order.
RECURSIVE ScanRange(_, _, _, _, _)
ScanRange(p, lasers, lo, hi, st) ==
    IF lo >= hi
    THEN ScanResult(lo, FALSE, st)
    ELSE IF hi = lo + 1
    THEN ScanSlot(p, lasers, lo, st)
    ELSE LET r == ScanRange(p, lasers, lo, (lo + hi) \div 2, st)
         IN  IF r.wrap
             THEN r
             ELSE ScanRange(p, lasers, (lo + hi) \div 2, hi,
                            [last_azimuth |-> r.last_azimuth,
                             points |-> r.points])

\* The loops of lines 320-391 from slot pos on, up to the next slot at which
\* the rotation test fires or to the end of the packet.
Scan(p, lasers, pos, st) == ScanRange(p, lasers, pos, SlotsPerPkt, st)

\* After the push and the backpressure wait at slot pos: the slot's own
\* return, then the following slots.
Resume(p, lasers, pos, st) ==
    Scan(p, lasers, pos + 1, ProcessReturn(Slot(p, lasers, pos), st))

\* ------------------------------------------------------------ initial state

\* The sizes initialize() leaves in the base class's tables.  VLP16Capture
\* assigns all three (lines 431-433), each of 16 entries (lines 404-406);
\* HDL32ECapture assigns lut alone (line 465), of 32 entries (line 442), and
\* the base class's lut_cos and lut_sin stay as constructed, empty.
LutSize(model) == model
LutCosSize(model) == IF model = 16 THEN 16 ELSE 0
LutSinSize(model) == IF model = 16 THEN 16 ELSE 0

\* The members as the base class's initialisers leave them (lines 67-80):
\* nothing opened, no thread, an empty queue, no transform.
Members ==
    /\ run = FALSE
    /\ thread = 0
    /\ pcap = 0
    /\ queue = <<>>
    /\ mutex = "free"
    /\ transformMatrixPtr = 0
    /\ pcapFile = 0
    /\ pcapPos = 0
    /\ cap = [pc |-> "none", last_azimuth |-> 0, points |-> 0, pos |-> 0,
              unixtime |-> 0, matrix |-> Uninitialised, configured |-> 0,
              applied |-> 0]
    /\ cloud = [t \in Clients |-> NullCloud]
    /\ inOpen = FALSE
    /\ aborted = FALSE
    /\ nOpen = 0
    /\ unjoined = {}
    /\ openSrc = {}
    /\ nPushed = 0
    /\ result = [t \in Clients |-> "none"]

\* A default-constructed VLP16Capture or HDL32ECapture (lines 110, 409-412,
\* 445-448): the members as initialised, and initialize() has run.
Init ==
    /\ Members
    /\ derived \in LaserCounts
    /\ MAX_NUM_LASERS = derived
    /\ lut = LutSize(derived)
    /\ lut_cos = LutCosSize(derived)
    /\ lut_sin = LutSinSize(derived)
    /\ queueLimit \in {0, MAX_QUEUE_SIZE}
    /\ filename \in FileIds
    /\ pc = [t \in Clients |-> "idle"]
    /\ probe = NoProbe

\* ------------------------------------------------------------ capture thread

\* The capture thread is at label, in a process that is still alive.
CapAt(label) == ~aborted /\ cap.pc = label

\* What no step of the thread writes.
CapKeeps ==
    UNCHANGED <<thread, pcap, MAX_NUM_LASERS, derived, lut, lut_cos, lut_sin,
                transformMatrixPtr, queueLimit, filename, pcapFile, pc, cloud,
                inOpen, nOpen, unjoined, openSrc, result, probe>>

CapUnchanged == CapKeeps /\ UNCHANGED aborted

\* The packet the thread is working on: the last one pcap_next_ex delivered
\* (its id).
CurPacket == Files[pcapFile][pcapPos]

\* The thread's locals after a scan: at a completed rotation it goes on to
\* the push, at the end of the packet back to the loop test.
AfterScan(scan) ==
    [cap EXCEPT !.pc = IF scan.wrap THEN "push_lock" ELSE "loop",
                !.pos = scan.pos,
                !.last_azimuth = scan.last_azimuth,
                !.points = scan.points]

CapLocals == [last_azimuth |-> cap.last_azimuth, points |-> cap.points]

\* The process ends inside the thread.
Abort == aborted' = TRUE /\ UNCHANGED cap

\* What a read of an int that was never assigned can yield.
IndeterminateLasers == {0} \cup LaserCounts

\* Line 327 reads MAX_NUM_LASERS; 0 stands for the member before
\* initialize() assigned it (line 77 gives it no initialiser).
LasersRead ==
    IF MAX_NUM_LASERS = 0 THEN IndeterminateLasers ELSE {MAX_NUM_LASERS}

\* lut_cos[laser_index_modulus] and lut_sin[laser_index_modulus] of lines
\* 374-376 are within the tables for every index below lasers.
TablesCover(lasers) == lut_cos >= lasers /\ lut_sin >= lasers

\* What the table reads of the returns a scan accepts can do: operator[]
\* past the end of a vector is undefined, and the build either ends the
\* process or computes the point from whatever the read yields.
TableReads(lasers, scan, st) ==
    IF scan.points > st.points /\ ~TablesCover(lasers)
    THEN {"garbage", "abort"}
    ELSE {"ok"}

\* Lines 378-383: the matrix a point is transformed by.  The test reads the
\* member transformMatrixPtr, the product the local copy of lines 276-282.
Applied == IF transformMatrixPtr = 0 THEN 0 ELSE cap.matrix

\* The loops of lines 320-391 on packet p, from its first slot or on from the
\* slot of a push, with the locals st.  laser_index % MAX_NUM_LASERS with a
\* zero MAX_NUM_LASERS ends the process.
ScanOn(p, resume, st, stamp) ==
    \E lasers \in LasersRead :
      IF lasers = 0
      THEN Abort
      ELSE \E scan \in {IF resume THEN Resume(p, lasers, cap.pos, st)
                                   ELSE Scan(p, lasers, 0, st)} :
             \E outcome \in TableReads(lasers, scan, st) :
               IF outcome = "abort"
               THEN Abort
               ELSE /\ cap' = [AfterScan(scan) EXCEPT
                                 !.unixtime = stamp,
                                 !.applied = IF scan.points > st.points
                                             THEN Applied ELSE @]
                    /\ UNCHANGED aborted

\* Lines 271-284: last_azimuth = 0.0, a fresh cloud, and the local matrix,
\* which is filled from *transformMatrixPtr when the pointer is not null.
CapStart ==
    /\ CapAt("start")
    /\ cap' = [cap EXCEPT !.pc = "loop", !.last_azimuth = 0, !.points = 0,
                          !.matrix = IF transformMatrixPtr # 0
                                     THEN transformMatrixPtr ELSE Uninitialised]
    /\ UNCHANGED <<run, queue, mutex, pcapPos, nPushed>>
    /\ CapUnchanged

\* Line 285: while( run )
CapLoop ==
    /\ CapAt("loop")
    /\ cap' = [cap EXCEPT !.pc = IF run THEN "read" ELSE "exit"]
    /\ UNCHANGED <<run, queue, mutex, pcapPos, nPushed>>
    /\ CapUnchanged

\* What pcap_next_ex can return: 1 with the next packet, -1 on a read error,
\* -2 at the end of the file.
NextExReturns ==
    IF pcapPos < Len(Files[pcapFile]) THEN {1, -1} ELSE {-2}

\* A length test that lets every packet through.
WrongSizeNever(pkt) == FALSE

\* Line 296: ( header->len - 42 ) != 1206
WrongSize(pkt) == pkt.len - HeaderBytes # PayloadBytes

\* Line 308: assert( sensorType == 0x21 || sensorType == 0x22 ).  A build
\* with NDEBUG has no test at all; one without ends the process when the
\* test fails.
AssertOutcomes(pkt) ==
    IF pkt.sensorType \in {33, 34} THEN {"pass"} ELSE {"abort", "compiled_out"}

\* Lines 289-339: read a packet; leave the loop on ret <= 0; skip a packet
\* of the wrong size; else take the time stamp and start the slot loops.
CapRead ==
    /\ CapAt("read")
    /\ \E ret \in NextExReturns :
         IF ret <= 0
         THEN /\ cap' = [cap EXCEPT !.pc = "exit"]
              /\ UNCHANGED <<pcapPos, aborted>>
         ELSE LET p == Files[pcapFile][pcapPos + 1]
                  pkt == Packets[p]
              IN  /\ pcapPos' = pcapPos + 1
                  /\ IF WrongSize(pkt)
                     THEN cap' = [cap EXCEPT !.pc = "loop"] /\ UNCHANGED aborted
                     ELSE \E tested \in AssertOutcomes(pkt) :
                            IF tested = "abort"
                            THEN Abort
                            ELSE ScanOn(p, FALSE, CapLocals,
                                        UnixTime(pkt.tv_sec, pkt.tv_usec))
    /\ UNCHANGED <<run, queue, mutex, nPushed>>
    /\ CapKeeps

\* Line 347: mutex.lock()
CapPushLock ==
    /\ CapAt("push_lock")
    /\ mutex = "free"
    /\ mutex' = "cap"
    /\ cap' = [cap EXCEPT !.pc = "push"]
    /\ UNCHANGED <<run, queue, pcapPos, nPushed>>
    /\ CapUnchanged

\* The frame of lines 344-346.
CompletedFrame == [id |-> nPushed + 1, width |-> cap.points, stamp |-> cap.unixtime]

\* After the push: into the backpressure wait when the build has one, else
\* on with the slot's return.
AfterPush ==
    IF queueLimit > 0
    THEN cap' = [cap EXCEPT !.pc = "bp_run", !.points = 0] /\ UNCHANGED aborted
    ELSE ScanOn(CurPacket, TRUE,
                [last_azimuth |-> cap.last_azimuth, points |-> 0], cap.unixtime)

\* Lines 344-350: stamp and push the frame, unlock, start a new cloud.
CapPush ==
    /\ CapAt("push")
    /\ queue' = Push(queue, CompletedFrame)
    /\ nPushed' = nPushed + 1
    /\ mutex' = "free"
    /\ AfterPush
    /\ UNCHANGED <<run, pcapPos>>
    /\ CapKeeps

\* A wait that never looks at the run flag.
BpKeepsWaitingAlways == TRUE

\* Line 352, first operand: while( run && ... )
BpKeepsWaiting == run

\* Line 352, first operand: a false run ends the wait.
CapBpRun ==
    /\ CapAt("bp_run")
    /\ IF BpKeepsWaiting
       THEN cap' = [cap EXCEPT !.pc = "bp_lock"] /\ UNCHANGED aborted
       ELSE ScanOn(CurPacket, TRUE, CapLocals, cap.unixtime)
    /\ UNCHANGED <<run, queue, mutex, pcapPos, nPushed>>
    /\ CapKeeps

\* Line 352, getQueueSize(): lock
CapBpLock ==
    /\ CapAt("bp_lock")
    /\ mutex = "free"
    /\ mutex' = "cap"
    /\ cap' = [cap EXCEPT !.pc = "bp_size"]
    /\ UNCHANGED <<run, queue, pcapPos, nPushed>>
    /\ CapUnchanged

\* Line 352, second operand: the wait goes on while !(size < MAX_QUEUE_SIZE).
QueueHasRoom(size) == size < queueLimit

\* Lines 352-354: read the size, unlock; sleep and test again, or go on.
CapBpSize ==
    /\ CapAt("bp_size")
    /\ mutex' = "free"
    /\ IF QueueHasRoom(Len(queue))
       THEN ScanOn(CurPacket, TRUE, CapLocals, cap.unixtime)
       ELSE cap' = [cap EXCEPT !.pc = "bp_run"] /\ UNCHANGED aborted
    /\ UNCHANGED <<run, queue, pcapPos, nPushed>>
    /\ CapKeeps

\* Line 394: run = false; the thread function returns.
CapExit ==
    /\ CapAt("exit")
    /\ run' = FALSE
    /\ cap' = [cap EXCEPT !.pc = "done"]
    /\ UNCHANGED <<queue, mutex, pcapPos, nPushed>>
    /\ CapUnchanged

capturePCAP ==
    \/ CapStart
    \/ CapLoop
    \/ CapRead
    \/ CapPushLock
    \/ CapPush
    \/ CapBpRun
    \/ CapBpLock
    \/ CapBpSize
    \/ CapExit

\* ------------------------------------------------------------ client calls

\* What a client step leaves alone besides what it names.
ClientKeeps ==
    UNCHANGED <<MAX_NUM_LASERS, derived, lut, lut_cos, lut_sin,
                transformMatrixPtr, queueLimit, filename, nPushed, probe>>

ClientUnchanged == ClientKeeps /\ UNCHANGED aborted

NoLifecycle ==
    UNCHANGED <<run, thread, pcap, pcapFile, pcapPos, cap, inOpen, nOpen,
                unjoined, openSrc>>

\* Client t is at label, in a process that is still alive.
At(t, label) == ~aborted /\ pc[t] = label

Goto(t, label) == pc' = [pc EXCEPT ![t] = label]
\* The call returns: the client is back in its caller with the outcome.
Return(t, outcome) ==
    /\ pc' = [pc EXCEPT ![t] = "returned"]
    /\ result' = [result EXCEPT ![t] = outcome]

\* std::lock_guard / mutex.lock(): waits until the mutex is free.
Lock(t) == mutex = "free" /\ mutex' = t
Unlock(t) == mutex' = "free"

\* An isRun() that looks at the run flag alone.
IsRunValueRunOnly == run

\* Line 192: run || !queue.empty()
IsRunValue == run \/ queue # <<>>

\* The caller goes on after a call returned; it may make its next call.
Continue(t) ==
    /\ At(t, "returned")
    /\ pc' = [pc EXCEPT ![t] = "idle"]
    /\ result' = [result EXCEPT ![t] = "none"]
    /\ UNCHANGED <<queue, mutex, cloud>>
    /\ NoLifecycle /\ ClientUnchanged

\* -- isRun (lines 188-193)

IsRunCall(t) ==
    /\ At(t, "idle")
    /\ Goto(t, "isrun_lock")
    /\ UNCHANGED <<queue, mutex, cloud, result>>
    /\ NoLifecycle /\ ClientUnchanged

IsRunLock(t) ==
    /\ At(t, "isrun_lock")
    /\ Lock(t)
    /\ Goto(t, "isrun")
    /\ UNCHANGED <<queue, cloud, result>>
    /\ NoLifecycle /\ ClientUnchanged

IsRunReturn(t) ==
    /\ At(t, "isrun")
    /\ Unlock(t)
    /\ Return(t, IF IsRunValue THEN "isrun_true" ELSE "isrun_false")
    /\ UNCHANGED <<queue, cloud>>
    /\ NoLifecycle /\ ClientUnchanged

\* -- close (lines 196-222)

CloseCall(t) ==
    /\ At(t, "idle")
    /\ t = "main"
    /\ Goto(t, "close_run")
    /\ inOpen' = FALSE
    /\ UNCHANGED <<run, thread, pcap, pcapFile, pcapPos, cap, nOpen, unjoined,
                   openSrc, queue, mutex, cloud, result>>
    /\ ClientUnchanged

\* Line 198: run = false
CloseRun(t) ==
    /\ At(t, "close_run")
    /\ run' = FALSE
    /\ Goto(t, "close_join")
    /\ UNCHANGED <<thread, pcap, pcapFile, pcapPos, cap, inOpen, nOpen, unjoined,
                   openSrc, queue, mutex, cloud, result>>
    /\ ClientUnchanged

\* Lines 200-217: join and delete the thread the handle names (join returns
\* once its function has returned), then close the source the handle names.
\* thread->~thread() followed by delete runs the destructor of a joined
\* std::thread twice, which does nothing either time.
CloseJoin(t) ==
    /\ At(t, "close_join")
    /\ thread # 0 => cap.pc = "done"
    /\ unjoined' = unjoined \ {thread}
    /\ thread' = 0
    /\ cap' = IF thread # 0 THEN [cap EXCEPT !.pc = "none"] ELSE cap
    /\ openSrc' = openSrc \ {pcap}
    /\ pcap' = 0
    /\ Goto(t, "close_lock")
    /\ UNCHANGED <<run, pcapFile, pcapPos, inOpen, nOpen, queue, mutex, cloud,
                   result>>
    /\ ClientUnchanged

\* Line 219: std::lock_guard
CloseLock(t) ==
    /\ At(t, "close_lock")
    /\ Lock(t)
    /\ Goto(t, "close_swap")
    /\ UNCHANGED <<queue, cloud, result>>
    /\ NoLifecycle /\ ClientUnchanged

\* Line 221: swap the queue with an empty one; close returns, to open()
\* when open() called it.
CloseSwap(t) ==
    /\ At(t, "close_swap")
    /\ queue' = Swap(queue)
    /\ Unlock(t)
    /\ IF inOpen
       THEN Goto(t, "open_pcap") /\ UNCHANGED result
       ELSE Return(t, "closed")
    /\ inOpen' = FALSE
    /\ UNCHANGED <<run, thread, pcap, pcapFile, pcapPos, cap, nOpen, unjoined,
                   openSrc, cloud>>
    /\ ClientUnchanged

\* -- open (lines 135-171)

OpenCallUpTo(t, opens) ==
    /\ At(t, "idle")
    /\ t = "main"
    /\ nOpen < opens
    /\ nOpen' = nOpen + 1
    /\ Goto(t, "open_isrun_lock")
    /\ UNCHANGED <<run, thread, pcap, pcapFile, pcapPos, cap, inOpen, unjoined,
                   openSrc, queue, mutex, cloud, result>>
    /\ ClientUnchanged

OpenCall(t) == OpenCallUpTo(t, MaxOpens)

OpenCallConc(t) == OpenCallUpTo(t, MaxOpensConc)

\* Line 138: isRun() takes the lock
OpenIsRunLock(t) ==
    /\ At(t, "open_isrun_lock")
    /\ Lock(t)
    /\ Goto(t, "open_isrun")
    /\ UNCHANGED <<queue, cloud, result>>
    /\ NoLifecycle /\ ClientUnchanged

\* Line 138: open() closes first only when isRun() answers true.
OpenClosesFirst == IsRunValue

\* Lines 138-140: if( isRun() ) close();
OpenIsRun(t) ==
    /\ At(t, "open_isrun")
    /\ Unlock(t)
    /\ IF OpenClosesFirst
       THEN Goto(t, "close_run") /\ inOpen' = TRUE
       ELSE Goto(t, "open_pcap") /\ UNCHANGED inOpen
    /\ UNCHANGED <<run, thread, pcap, pcapFile, pcapPos, cap, nOpen, unjoined,
                   openSrc, queue, cloud, result>>
    /\ ClientUnchanged

\* What the pcap calls of lines 144-161 can do: pcap_open_offline fails;
\* it succeeds and pcap_compile or pcap_setfilter fails; all succeed.
OpenOutcomes == {"ok", "open_fail", "filter_fail"}

\* Lines 142-170.  A failed pcap_open_offline throws with nothing opened; a
\* failed filter throws with the local pcap opened and not closed; else the
\* handles are overwritten, run is set and the capture thread is spawned.
OpenPcap(t) ==
    /\ At(t, "open_pcap")
    /\ \E outcome \in OpenOutcomes :
         CASE outcome = "open_fail" ->
                /\ Return(t, "throw")
                /\ UNCHANGED <<run, thread, pcap, pcapFile, pcapPos, cap,
                               unjoined, openSrc>>
           [] outcome = "filter_fail" ->
                /\ Return(t, "throw")
                /\ openSrc' = openSrc \cup {nOpen}
                /\ UNCHANGED <<run, thread, pcap, pcapFile, pcapPos, cap, unjoined>>
           [] outcome = "ok" ->
                /\ Return(t, "opened")
                /\ openSrc' = openSrc \cup {nOpen}
                /\ pcap' = nOpen
                /\ pcapFile' = filename
                /\ pcapPos' = 0
                /\ run' = TRUE
                /\ thread' = nOpen
                /\ unjoined' = unjoined \cup {nOpen}
                /\ cap' = [pc |-> "start", last_azimuth |-> 0, points |-> 0,
                           pos |-> 0, unixtime |-> 0, matrix |-> Uninitialised,
                           configured |-> transformMatrixPtr, applied |-> 0]
    /\ UNCHANGED <<inOpen, nOpen, queue, mutex, cloud>>
    /\ ClientUnchanged

\* -- retrieve (lines 225-235), also operator >> (lines 254-258)

\* A retrieve that goes on whether or not it got the mutex.
TryLockAlways == TRUE

\* Line 228: mutex.try_lock() returns at once, true when it took the mutex.
TryLock == mutex = "free"

\* Lines 227-228: a failed try_lock returns false to the caller.
RetrieveTry(t) ==
    /\ At(t, "idle")
    /\ IF TryLock
       THEN mutex' = t /\ Goto(t, "retr_body") /\ UNCHANGED result
       ELSE UNCHANGED mutex /\ Return(t, "busy")
    /\ UNCHANGED <<queue, cloud>>
    /\ NoLifecycle /\ ClientUnchanged

\* Lines 229-233
RetrieveBody(t) ==
    /\ At(t, "retr_body")
    /\ IF queue # <<>>
       THEN /\ cloud' = [cloud EXCEPT ![t] = Front(queue)]
            /\ queue' = Pop(queue)
            /\ Return(t, "popped")
       ELSE /\ UNCHANGED <<cloud, queue>>
            /\ Return(t, "empty")
    /\ Unlock(t)
    /\ NoLifecycle /\ ClientUnchanged

\* -- retrieve_block (lines 238-251)

RetrieveBlockCall(t) ==
    /\ At(t, "idle")
    /\ Goto(t, "rb_size_lock")
    /\ UNCHANGED <<queue, mutex, cloud, result>>
    /\ NoLifecycle /\ ClientUnchanged

\* Line 241: getQueueSize() takes the lock
RbSizeLock(t) ==
    /\ At(t, "rb_size_lock")
    /\ Lock(t)
    /\ Goto(t, "rb_size")
    /\ UNCHANGED <<queue, cloud, result>>
    /\ NoLifecycle /\ ClientUnchanged

\* Line 241: getQueueSize() == 0, read under the lock, which is released
\* before either branch runs.
RbSize(t) ==
    /\ At(t, "rb_size")
    /\ Unlock(t)
    /\ Goto(t, IF Len(queue) = 0 THEN "rb_run" ELSE "rb_lock")
    /\ UNCHANGED <<queue, cloud, result>>
    /\ NoLifecycle /\ ClientUnchanged

\* A poll that never looks at the run flag.
RbGivesUpNever == FALSE

\* Line 242: the poll ends without a frame when run is read false.
RbGivesUp == ~run

\* Lines 242, 249: if(!run) break; else sleep and poll again.
RbRun(t) ==
    /\ At(t, "rb_run")
    /\ IF RbGivesUp
       THEN Return(t, "no_frame")
       ELSE Goto(t, "rb_size_lock") /\ UNCHANGED result
    /\ UNCHANGED <<queue, mutex, cloud>>
    /\ NoLifecycle /\ ClientUnchanged

\* Line 244: std::lock_guard
RbLock(t) ==
    /\ At(t, "rb_lock")
    /\ Lock(t)
    /\ Goto(t, "rb_pop")
    /\ UNCHANGED <<queue, cloud, result>>
    /\ NoLifecycle /\ ClientUnchanged

\* front() and pop() of an empty std::queue are undefined: the build may end
\* the process inside the call, hand back garbage and leave the queue empty, or hand back
\* garbage and leave a queue that no longer reads as empty.
PopOutcomes == IF queue = <<>> THEN {"abort", "garbage", "corrupt"} ELSE {"pop"}

\* Lines 245-247: cloud = move(queue.front()); queue.pop(); no emptiness test.
RbPop(t) ==
    /\ At(t, "rb_pop")
    /\ \E outcome \in PopOutcomes :
         CASE outcome = "pop" ->
                /\ cloud' = [cloud EXCEPT ![t] = Front(queue)]
                /\ queue' = Pop(queue)
                /\ Return(t, "popped")
                /\ UNCHANGED aborted
           [] outcome = "abort" ->
                /\ aborted' = TRUE
                /\ UNCHANGED <<pc, result, cloud, queue>>
           [] outcome = "garbage" ->
                /\ cloud' = [cloud EXCEPT ![t] = Garbage]
                /\ Return(t, "popped")
                /\ UNCHANGED <<queue, aborted>>
           [] outcome = "corrupt" ->
                /\ cloud' = [cloud EXCEPT ![t] = Garbage]
                /\ queue' = <<Garbage>>
                /\ Return(t, "popped")
                /\ UNCHANGED aborted
    /\ Unlock(t)
    /\ NoLifecycle
    /\ ClientKeeps

\* ------------------------------------------------------------ specifications

Client(t) ==
    \/ IsRunCall(t) \/ IsRunLock(t) \/ IsRunReturn(t)
    \/ CloseCall(t) \/ CloseRun(t) \/ CloseJoin(t) \/ CloseLock(t) \/ CloseSwap(t)
    \/ OpenCall(t) \/ OpenIsRunLock(t) \/ OpenIsRun(t) \/ OpenPcap(t)
    \/ RetrieveTry(t) \/ RetrieveBody(t)
    \/ RetrieveBlockCall(t) \/ RbSizeLock(t) \/ RbSize(t) \/ RbRun(t)
    \/ RbLock(t) \/ RbPop(t)
    \/ Continue(t)

\* One client thread, which opens, closes and retrieves, and the capture
\* thread.
Next == capturePCAP \/ Client("main")

Spec == Init /\ [][Next]_vars

\* A controller thread, which opens and closes, a consumer thread, which
\* calls retrieve_block, and the capture thread.
Controller(t) ==
    \/ CloseCall(t) \/ CloseRun(t) \/ CloseJoin(t) \/ CloseLock(t) \/ CloseSwap(t)
    \/ OpenCallConc(t) \/ OpenIsRunLock(t) \/ OpenIsRun(t) \/ OpenPcap(t)
    \/ Continue(t)

Consumer(t) ==
    \/ RetrieveBlockCall(t) \/ RbSizeLock(t) \/ RbSize(t) \/ RbRun(t)
    \/ RbLock(t) \/ RbPop(t)
    \/ Continue(t)

NextConc == capturePCAP \/ Controller("main") \/ Consumer("cons")

\* The files of the concurrent specification: one without a frame and two
\* with several.
ConcFiles == {1, 2, 3}

InitConc == Init /\ filename \in ConcFiles /\ MAX_NUM_LASERS = 16

SpecConc == InitConc /\ [][NextConc]_vars

\* A call in progress goes on: the capture thread and a client inside a call
\* are scheduled again and again, and a thread waiting for the mutex gets it
\* (every holder releases it after a bounded critical section, and every
\* poll sleeps between two acquisitions).  Nothing obliges a client to make
\* a call.
InCallStep(t) ==
    \/ CloseRun(t) \/ CloseJoin(t) \/ CloseLock(t) \/ CloseSwap(t)
    \/ OpenIsRunLock(t) \/ OpenIsRun(t) \/ OpenPcap(t)
    \/ RbSizeLock(t) \/ RbSize(t) \/ RbRun(t) \/ RbLock(t) \/ RbPop(t)

\* ENABLED <<capturePCAP>>_vars, written out: the thread can take a step
\* unless it has returned or waits for the mutex.
CapEnabled ==
    /\ ~aborted
    /\ \/ cap.pc \in {"start", "loop", "read", "push", "bp_run", "bp_size", "exit"}
       \/ cap.pc \in {"push_lock", "bp_lock"} /\ mutex = "free"

\* SF_vars(capturePCAP), with its ENABLED written out as CapEnabled.
CapFair == <>[](~CapEnabled) \/ []<><<capturePCAP>>_vars

Fairness ==
    /\ CapFair
    /\ SF_vars(InCallStep("main"))
    /\ SF_vars(InCallStep("cons"))

LiveConc == SpecConc /\ Fairness


\* ------------------------------------------------------------ construction

\* The client is inside a constructor.
CtorLabels == {"ctor", "init_lasers", "init_lut", "init_cos", "init_sin"}

\* initialize() has made every assignment it makes (lines 430-433, 464-465).
Initialized ==
    /\ MAX_NUM_LASERS = derived
    /\ lut = LutSize(derived)
    /\ lut_cos = LutCosSize(derived)
    /\ lut_sin = LutSinSize(derived)

\* The constructor has returned.
Constructed == Initialized /\ pc["main"] \notin CtorLabels

\* What a step of initialize() leaves alone besides what it names.
InitializeUnchanged ==
    /\ UNCHANGED <<queue, mutex, cloud, transformMatrixPtr, derived,
                   queueLimit, filename, aborted, nPushed, probe>>
    /\ NoLifecycle

\* VLP16Capture() and HDL32ECapture() (lines 408-411, 445-448): the base
\* class's default constructor does nothing, then initialize().
CtorDefault(t) ==
    /\ At(t, "ctor")
    /\ Goto(t, "init_lasers")
    /\ UNCHANGED <<MAX_NUM_LASERS, lut, lut_cos, lut_sin, result>>
    /\ InitializeUnchanged

\* VLP16Capture( filename ) and HDL32ECapture( filename ) (lines 414-417,
\* 451-454): the base class's constructor calls open( filename ) (lines
\* 116-119) before the derived class's members exist and before
\* initialize().
CtorFile(t) ==
    /\ At(t, "ctor")
    /\ nOpen' = nOpen + 1
    /\ Goto(t, "open_isrun_lock")
    /\ UNCHANGED <<run, thread, pcap, pcapFile, pcapPos, cap, inOpen, unjoined,
                   openSrc, queue, mutex, cloud, result>>
    /\ ClientUnchanged

\* Lines 416, 453: open() returned to the constructor, which goes on with
\* initialize().  An open() that threw ends the construction: there is no
\* object.
InitializeAfterOpen(t) ==
    /\ At(t, "returned")
    /\ result[t] = "opened"
    /\ ~Initialized
    /\ Goto(t, "init_lasers")
    /\ result' = [result EXCEPT ![t] = "none"]
    /\ UNCHANGED <<MAX_NUM_LASERS, lut, lut_cos, lut_sin>>
    /\ InitializeUnchanged

\* Lines 430, 464: VelodyneCapture<PointT>::MAX_NUM_LASERS = MAX_NUM_LASERS
InitLasers(t) ==
    /\ At(t, "init_lasers")
    /\ MAX_NUM_LASERS' = derived
    /\ Goto(t, "init_lut")
    /\ UNCHANGED <<lut, lut_cos, lut_sin, result>>
    /\ InitializeUnchanged

\* Lines 431, 465: VelodyneCapture<PointT>::lut = lut; the last statement of
\* HDL32ECapture::initialize().
InitLut(t) ==
    /\ At(t, "init_lut")
    /\ lut' = LutSize(derived)
    /\ IF derived = 16
       THEN Goto(t, "init_cos") /\ UNCHANGED result
       ELSE Return(t, "constructed")
    /\ UNCHANGED <<MAX_NUM_LASERS, lut_cos, lut_sin>>
    /\ InitializeUnchanged

\* Line 432: VelodyneCapture<PointT>::lut_cos = lut_cos
InitCos(t) ==
    /\ At(t, "init_cos")
    /\ lut_cos' = LutCosSize(derived)
    /\ Goto(t, "init_sin")
    /\ UNCHANGED <<MAX_NUM_LASERS, lut, lut_sin, result>>
    /\ InitializeUnchanged

\* Line 433: VelodyneCapture<PointT>::lut_sin = lut_sin
InitSin(t) ==
    /\ At(t, "init_sin")
    /\ lut_sin' = LutSinSize(derived)
    /\ Return(t, "constructed")
    /\ UNCHANGED <<MAX_NUM_LASERS, lut, lut_cos>>
    /\ InitializeUnchanged

\* The caller goes on after a call on the constructed object returned.
ContinueConstructed(t) == Initialized /\ Continue(t)

OpenCallSetup(t) == OpenCallUpTo(t, MaxOpensSetup)

\* Lines 130-134, open( filename, transformMatrix ): the pointer is given a
\* new matrix first; then open( filename ), which tests isRun() and closes.
OpenTransformCall(t) ==
    /\ At(t, "idle")
    /\ nOpen < MaxOpensSetup
    /\ nOpen' = nOpen + 1
    /\ transformMatrixPtr' = nOpen + 1
    /\ Goto(t, "open_isrun_lock")
    /\ UNCHANGED <<run, thread, pcap, pcapFile, pcapPos, cap, inOpen, unjoined,
                   openSrc, queue, mutex, cloud, result>>
    /\ UNCHANGED <<MAX_NUM_LASERS, derived, lut, lut_cos, lut_sin, queueLimit,
                   filename, aborted, nPushed, probe>>

\* A client that constructs the capture object either way and then opens,
\* with or without a transform, and closes.
Setup(t) ==
    \/ CtorDefault(t) \/ CtorFile(t) \/ InitializeAfterOpen(t)
    \/ InitLasers(t) \/ InitLut(t) \/ InitCos(t) \/ InitSin(t)
    \/ OpenCallSetup(t) \/ OpenTransformCall(t)
    \/ OpenIsRunLock(t) \/ OpenIsRun(t) \/ OpenPcap(t)
    \/ CloseCall(t) \/ CloseRun(t) \/ CloseJoin(t) \/ CloseLock(t) \/ CloseSwap(t)
    \/ ContinueConstructed(t)

NextSetup == capturePCAP \/ Setup("main")

\* The files of the construction specification: one packet without a frame,
\* and two packets with one.
SetupFiles == {1, 2}

\* Before the constructor: the base class's member initialisers have run
\* (lines 67-80); MAX_NUM_LASERS has none and the three tables are empty.
InitSetup ==
    /\ Members
    /\ derived \in LaserCounts
    /\ MAX_NUM_LASERS = 0
    /\ lut = 0
    /\ lut_cos = 0
    /\ lut_sin = 0
    /\ queueLimit \in {0, MAX_QUEUE_SIZE}
    /\ filename \in SetupFiles
    /\ pc = [t \in Clients |-> IF t = "main" THEN "ctor" ELSE "idle"]
    /\ probe = NoProbe

SpecSetup == InitSetup /\ [][NextSetup]_vars

\* ------------------------------------------------- functions on their own

\* The object is default-constructed and stays so; probe holds the arguments
\* of one evaluation of a function of the loop body, and then its value.
Idle ==
    /\ Members
    /\ derived = 16
    /\ MAX_NUM_LASERS = derived
    /\ lut = LutSize(derived)
    /\ lut_cos = LutCosSize(derived)
    /\ lut_sin = LutSinSize(derived)
    /\ queueLimit = 0
    /\ filename = 1
    /\ pc = [t \in Clients |-> "idle"]

PureUnchanged ==
    UNCHANGED <<run, thread, pcap, queue, mutex, MAX_NUM_LASERS, derived, lut,
                lut_cos, lut_sin, transformMatrixPtr, queueLimit, filename,
                pcapFile, pcapPos, cap, pc, cloud, inOpen, aborted, nOpen,
                unjoined, openSrc, nPushed, result>>

\* A frame that is in progress, with no point yet and last_azimuth 0.
FreshFrame == [last_azimuth |-> 0, points |-> 0]

\* Slot pos of packet p, for either laser count.
ReturnProbes ==
    [fn : {"return"}, p : DOMAIN Packets, lasers : LaserCounts,
     pos : 0..(SlotsPerPkt - 1), done : {FALSE}, out : {0}]

\* Lines 357-386 on one slot of a packet: the number of points the slot's
\* return adds to the frame.
ApplyReturn ==
    /\ probe.fn = "return"
    /\ ~probe.done
    /\ probe' = [probe EXCEPT
                   !.done = TRUE,
                   !.out = ProcessReturn(Slot(probe.p, probe.lasers, probe.pos),
                                         FreshFrame).points]
    /\ PureUnchanged

\* Capture times: seconds, and microseconds of one to six digits.
ProbeSecs == {0, 7, 1999}
ProbeUsecs == {0, 5, 9, 10, 40, 999, 99999, 100000, 123456, 999999}

UnixProbes ==
    [fn : {"unixtime"}, sec : ProbeSecs, usec : ProbeUsecs, done : {FALSE},
     out : {0}]

\* Lines 301-303 on one capture time.
ApplyUnixTime ==
    /\ probe.fn = "unixtime"
    /\ ~probe.done
    /\ probe' = [probe EXCEPT !.done = TRUE,
                              !.out = UnixTime(probe.sec, probe.usec)]
    /\ PureUnchanged

\* Rotational positions within [0, 36000), at its ends and its middle.
ProbeRots == {0, 100, 17999, 18000, 35900, 35999}
ProbeLasers == {0, 15, 16, 31}
ProbeFirings == {0, 1, 2}

\* A packet whose firing blocks 0, 1 and 2 are at r0, r1 and rf; the return
\* that slot j of block f reads has distance 0 when zero holds.
AzimuthProbes ==
    [fn : {"azimuth"}, r0 : ProbeRots, r1 : ProbeRots, rf : ProbeRots,
     f : ProbeFirings, j : ProbeLasers, lasers : LaserCounts, zero : BOOLEAN,
     done : {FALSE}, out : {0}]

ProbePacket(a) ==
    MkPacket(FullLen, 0, 0,
             <<a.r0, a.r1, a.rf, a.rf, a.rf, a.rf, a.rf, a.rf, a.rf, a.rf,
               a.rf, a.rf>>,
             IF a.zero THEN {<<a.f, a.j % a.lasers>>} ELSE {})

\* Lines 310-339 and 357-388 on one slot of such a packet: interpolated, the
\* slot's azimuth, and last_azimuth after the slot (all doubled).
ApplyAzimuth ==
    /\ probe.fn = "azimuth"
    /\ ~probe.done
    /\ LET pkt == ProbePacket(probe)
           pos == probe.f * LASER_PER_FIRING + probe.j
           slot == [azimuth |-> Azimuth(pkt, probe.lasers, pos),
                    distance |-> Distance(pkt, probe.lasers, pos)]
       IN  probe' = [probe EXCEPT
                       !.done = TRUE,
                       !.out = [interpolated |-> Interpolated(pkt),
                                azimuth |-> slot.azimuth,
                                last_azimuth |->
                                    ProcessReturn(slot, FreshFrame).last_azimuth]]
    /\ PureUnchanged

InitPure ==
    /\ Idle
    /\ probe \in ReturnProbes \cup UnixProbes \cup AzimuthProbes

NextPure == ApplyReturn \/ ApplyUnixTime \/ ApplyAzimuth

SpecPure == InitPure /\ [][NextPure]_vars

\* ------------------------------------------------------------ streams

\* The packets of capture file f that pass the length test of line 296, in
\* the order pcap_next_ex delivers them, and those among its first n.
FullSize(p) == Packets[p].len - HeaderBytes = PayloadBytes
StreamPackets(f) == SelectSeq(Files[f], FullSize)
StreamPacketsRead(f, n) == SelectSeq(SubSeq(Files[f], 1, n), FullSize)

\* Slot i (from 0) of the slots the loops of lines 320-391 visit over the
\* whole of file f.
StreamLen(f) == Len(StreamPackets(f)) * SlotsPerPkt
StreamSlot(f, lasers, i) ==
    Slot(StreamPackets(f)[(i \div SlotsPerPkt) + 1], lasers, i % SlotsPerPkt)

\* The slots of the stream whose azimuth is below that of the slot before.
WrapSlots(f, lasers) ==
    {i \in 1..(StreamLen(f) - 1) :
        StreamSlot(f, lasers, i - 1).azimuth > StreamSlot(f, lasers, i).azimuth}

\* The returns before slot i that are not below EPSILON.
ReturnsBefore(f, lasers, i) ==
    Cardinality({k \in 0..(i - 1) : ~BelowEpsilon(StreamSlot(f, lasers, k).distance)})

\* Per capture file and laser count: the number of packets parsed, the
\* number of azimuth decreases, the slot of the first one and the number of
\* returns not below EPSILON before it.
StreamFacts ==
    [f \in FileIds |->
       [lasers \in LaserCounts |->
          LET w == WrapSlots(f, lasers)
              first == IF w = {} THEN 0 ELSE CHOOSE i \in w : \A k \in w : i <= k
          IN  [packets |-> Len(StreamPackets(f)),
               wraps |-> Cardinality(w),
               wrapSlot |-> first,
               before |-> ReturnsBefore(f, lasers, first)]]]

\* The capture thread of the first open() reads a file.
FirstStream == nOpen = 1 /\ pcapFile # 0

Facts == StreamFacts[pcapFile][MAX_NUM_LASERS]

\* The stream slot the capture thread is at.
StreamPos ==
    (Len(StreamPacketsRead(pcapFile, pcapPos)) - 1) * SlotsPerPkt + cap.pos

\* The capture thread has been through every slot of every packet of the file.
StreamRead ==
    /\ pcapPos = Len(Files[pcapFile])
    /\ cap.pc \in {"loop", "read", "exit", "done"}

\* ------------------------------------------------------------ C1

\* The frames in the queue are in the order of their completion.
QueueInPushOrder ==
    \A i, k \in 1..Len(queue) : i < k => queue[i].id < queue[k].id

\* A step that hands client t a frame hands it the oldest frame of the queue
\* and takes it off the queue; the frame was completed after every frame t
\* received before and before every frame left in the queue.
DeliversOldest(t) ==
    cloud'[t] # cloud[t] =>
        /\ queue # <<>>
        /\ cloud'[t] = queue[1]
        /\ queue' = SubSeq(queue, 2, Len(queue))
        /\ cloud[t].id < cloud'[t].id
        /\ \A i \in 1..Len(queue') : cloud'[t].id < queue'[i].id

\* C1: under every interleaving of the capture thread's pushes with a
\* client's retrieve and retrieve_block calls, the client receives frames in
\* the order they were completed and none twice: the queue holds the frames
\* oldest first, and every delivery takes the oldest, which is newer than
\* all the client received before.
C1_FramesInOrder ==
    /\ []QueueInPushOrder
    /\ [][\A t \in Clients : DeliversOldest(t)]_vars

\* The client has received its second frame while later ones are queued.
C1_Witness == cloud["main"].id >= 2 /\ queue # <<>>

\* ------------------------------------------------------------ C2

\* C2: in a build with MAX_QUEUE_SIZE = N the queue never holds more than N
\* frames, whatever the packets hold, and also while close() has set run
\* false and the capture thread finishes its packet.
C2_QueueWithinLimit == queueLimit > 0 => Len(queue) <= queueLimit

\* ------------------------------------------------------------ C3

\* C3: over a capture file whose slot azimuths decrease exactly once, the
\* capture thread completes exactly one frame, at the slot of the decrease
\* and before that slot's return is processed, whatever the distances are.
C3_SingleWrapOneFrame ==
    (FirstStream /\ Facts.wraps = 1) =>
        /\ cap.pc \in {"push_lock", "push"} =>
              nPushed = 0 /\ StreamPos = Facts.wrapSlot
        /\ StreamRead => nPushed = 1

\* ------------------------------------------------------------ C4

\* isRun() returns to client t in this step.
IsRunReturns(t) == pc[t] = "isrun" /\ pc'[t] = "returned"

\* The capture thread has left its loop and has not been joined.
LoopEnded == cap.pc = "done"

\* C4: isRun() answers true exactly when run is set or the queue is not
\* empty; and once the capture thread has left its loop, run stays false
\* and the queue changes only by a client taking its oldest frame, so that
\* isRun() is true as long as a frame is queued and false from then on.
C4_IsRunUntilDrained ==
    [][/\ \A t \in Clients :
             IsRunReturns(t) =>
                 ((result'[t] = "isrun_true") <=> (run \/ queue # <<>>))
       /\ (LoopEnded /\ LoopEnded') =>
             /\ ~run /\ ~run'
             /\ \/ queue' = queue
                \/ /\ queue # <<>>
                   /\ queue' = SubSeq(queue, 2, Len(queue))
                   /\ \E t \in Clients : cloud'[t] = queue[1]
      ]_vars

\* After the end of the file the client took the last frame and isRun()
\* answered false.
C4_Witness ==
    /\ LoopEnded
    /\ nOpen = 1
    /\ cloud["main"].id = nPushed /\ nPushed >= 1
    /\ result["main"] = "isrun_false"

\* ------------------------------------------------------------ C5

CloseLabels == {"close_run", "close_join", "close_lock", "close_swap"}

\* What close() leaves: no run flag, no thread, no source, no frame.
Closed ==
    /\ ~run
    /\ thread = 0 /\ cap.pc = "none"
    /\ pcap = 0
    /\ queue = <<>>

\* C5: when close() returns, run is false, the thread of the handle is
\* joined and the handle null, the source of the handle is closed and the
\* handle null, and the queue is empty; a close() called in that state
\* changes nothing.
C5_CloseResets ==
    /\ [](result["main"] = "closed" => Closed)
    /\ [][/\ (pc["main"] = "close_join" /\ pc'["main"] = "close_lock") =>
                thread \notin unjoined' /\ pcap \notin openSrc'
          /\ (Closed /\ pc["main"] \in CloseLabels) =>
                UNCHANGED <<run, thread, pcap, queue, cap, unjoined, openSrc>>
         ]_vars

\* close() returned after it stopped a capture thread in the middle of the
\* file, with frames completed.
C5_Witness ==
    /\ result["main"] = "closed"
    /\ pcapFile # 0 /\ pcapPos < Len(Files[pcapFile])
    /\ nPushed >= 1

\* ------------------------------------------------------------ C6

\* C6: with one client and no close() during the call, retrieve_block
\* returns without a frame only when run is false and the queue is empty.
C6_NoFrameOnlyWhenDrained ==
    result["main"] = "no_frame" => (~run /\ queue = <<>>)

\* ------------------------------------------------------------ C7

\* Client t is inside retrieve_block.
RbActive(t) ==
    pc[t] \in {"rb_size_lock", "rb_size", "rb_run", "rb_lock", "rb_pop"}

RbCalled == RbActive("cons")

\* The call is over: it returned, or the process ended inside it.
RbOver == ~RbActive("cons") \/ aborted

\* C7: under fair scheduling a retrieve_block call ends: the capture thread
\* reaches the end of its file or is stopped by close(), and the call then
\* finds a frame or reads run false and returns.
C7_RetrieveBlockEnds == RbCalled ~> RbOver

\* retrieve_block returned without a frame after the capture thread read
\* its file to the end.
C7_Witness ==
    /\ result["cons"] = "no_frame"
    /\ cap.pc = "done"
    /\ pcapPos >= 1

\* ------------------------------------------------------------ C8

\* C8: retrieve never waits for the mutex (with the client about to call, the
\* call's first step can be taken whoever holds the mutex); it goes on to
\* the queue only with a mutex that was free; with the mutex and a frame it
\* hands out the oldest frame and takes it off the queue; else it leaves
\* the queue and the caller's cloud as they are.
C8_RetrieveNeverWaits ==
    /\ [](pc["main"] = "idle" /\ ~aborted => ENABLED RetrieveTry("main"))
    /\ [][/\ (pc["main"] = "idle" /\ pc'["main"] = "retr_body") =>
                mutex = "free" /\ mutex' = "main" /\ UNCHANGED <<queue, cloud>>
          /\ (pc["main"] = "idle" /\ result'["main"] = "busy") =>
                mutex # "free" /\ UNCHANGED <<mutex, queue, cloud>>
          /\ (pc["main"] = "retr_body" /\ pc'["main"] # "retr_body") =>
                IF queue # <<>>
                THEN /\ result'["main"] = "popped"
                     /\ cloud'["main"] = queue[1]
                     /\ queue' = SubSeq(queue, 2, Len(queue))
                ELSE /\ result'["main"] = "empty"
                     /\ UNCHANGED <<queue, cloud>>
         ]_vars

\* retrieve found the mutex held by the capture thread, with a frame queued.
C8_Witness == result["main"] = "busy" /\ queue # <<>>

\* ------------------------------------------------------------ C9

\* C9: a handle is replaced only after what it names was released: the
\* thread joined, the source closed.
C9_NoLeakOnReplace ==
    [][/\ (thread' # thread /\ thread # 0) => thread \notin unjoined'
       /\ (pcap' # pcap /\ pcap # 0) => pcap \notin openSrc'
      ]_vars

\* ------------------------------------------------------------ C10

\* The frames a client can still read: queued or handed out.
Visible == {queue[i] : i \in 1..Len(queue)} \cup {cloud[t] : t \in Clients}

\* C10: a file without an azimuth decrease yields no frame; a file of two
\* packets with exactly one decrease yields exactly one frame, whose width
\* is the number of returns not below EPSILON before the decrease.
C10_FrameCount ==
    (FirstStream /\ StreamRead) =>
        /\ Facts.wraps = 0 => nPushed = 0
        /\ (Facts.wraps = 1 /\ Facts.packets = 2) =>
              /\ nPushed = 1
              /\ \A frame \in Visible : frame.id = 1 => frame.width = Facts.before

\* ------------------------------------------------------------ C11

\* firingData[f].laserReturns[j].distance of the slot itself.
OwnDistance(p, pos) == Packets[p].dist[FiringOf(pos)][LaserOf(pos)]

\* C11: for both laser counts and every firing block, the return of slot j
\* adds no point to the frame when the slot's own raw distance is 0 and one
\* point when it is 1 or more.
C11_OwnDistanceDecides ==
    probe.fn = "return" /\ probe.done =>
        probe.out = IF OwnDistance(probe.p, probe.pos) = 0 THEN 0 ELSE 1

\* ------------------------------------------------------------ C13

\* The seconds' digits followed by the microseconds as six digits, padded
\* with zeros on the left.
SecondsThenSixDigits(sec, usec) == sec * Pow10(6) + usec

\* C13: for every microsecond value in [0, 999999], the time stamp computed
\* from a packet's capture time is the integer whose digits are those of the
\* seconds followed by the microseconds as exactly six zero-padded digits
\* (5 microseconds give ...000005).
C13_StampIsUnixMicroseconds ==
    probe.fn = "unixtime" /\ probe.done =>
        probe.out = SecondsThenSixDigits(probe.sec, probe.usec)

\* ------------------------------------------------------------ C12

\* pcap_next_ex delivers the packets of file f with capture times
\* (seconds, microseconds) that never decrease.
CaptureTimeAtMost(a, b) ==
    \/ a.tv_sec < b.tv_sec
    \/ a.tv_sec = b.tv_sec /\ a.tv_usec <= b.tv_usec

TimesNonDecreasing(f) ==
    \A i, k \in 1..Len(Files[f]) :
        i < k => CaptureTimeAtMost(Packets[Files[f][i]], Packets[Files[f][k]])

\* C12: when the packets of the capture file come with non-decreasing
\* capture times, the time stamps of the frames in the queue, oldest first,
\* never decrease.
C12_StampsNonDecreasing ==
    (FirstStream /\ TimesNonDecreasing(pcapFile)) =>
        \A i, k \in 1..Len(queue) :
            i < k => queue[i].stamp <= queue[k].stamp

\* ------------------------------------------------------------ C14

\* The step reads a packet whose length is not 42 + 1206.
ReadsShortPacket ==
    /\ cap.pc = "read"
    /\ pcapPos' = pcapPos + 1
    /\ Packets[Files[pcapFile][pcapPos + 1]].len # FullLen

\* The step leaves last_azimuth, the frame in progress and the queue as they
\* are, and the thread is back at the loop test.
PacketSkipped ==
    /\ cap' = [cap EXCEPT !.pc = "loop"]
    /\ queue' = queue
    /\ nPushed' = nPushed
    /\ run' = run
    /\ ~aborted'

\* Capture file f has a packet of the wrong length.
HasShortPacket(f) == \E i \in 1..Len(Files[f]) : ~FullSize(Files[f][i])

\* The packet of file f in which the first azimuth decrease is detected.
WrapPacket(f, lasers) ==
    Packets[StreamPackets(f)[(StreamFacts[f][lasers].wrapSlot \div SlotsPerPkt) + 1]]

\* The first frame of a file with a packet of the wrong length is the frame
\* of the file's other packets: it holds their returns up to the first
\* decrease and carries the time stamp of the packet of the decrease.
RestProcessed ==
    (FirstStream /\ HasShortPacket(pcapFile)) =>
        \A frame \in Visible : frame.id = 1 =>
            /\ frame.width = Facts.before
            /\ frame.stamp = UnixTime(WrapPacket(pcapFile, MAX_NUM_LASERS).tv_sec,
                                      WrapPacket(pcapFile, MAX_NUM_LASERS).tv_usec)

\* C14: a packet whose length less 42 is not 1206 is discarded: the step that
\* reads it changes neither last_azimuth nor the frame in progress nor the
\* queue and goes back to the loop test, and the packets after it are
\* processed as if it had not been there.
C14_WrongLengthDiscarded == []RestProcessed /\ [][ReadsShortPacket => PacketSkipped]_vars

\* The frame of the packet that follows a discarded one has been pushed.
C14_Witness ==
    /\ FirstStream
    /\ HasShortPacket(pcapFile)
    /\ ~FullSize(Files[pcapFile][1])
    /\ pcapPos = 2
    /\ nPushed = 1
    /\ queue # <<>>

\* ------------------------------------------------------------ C15

\* The step reads a packet of the right length whose sensorType is neither
\* 0x21 nor 0x22.
ReadsUnknownSensor ==
    /\ cap.pc = "read"
    /\ pcapPos' = pcapPos + 1
    /\ Packets[Files[pcapFile][pcapPos + 1]].len = FullLen
    /\ Packets[Files[pcapFile][pcapPos + 1]].sensorType \notin {33, 34}

\* C15: a packet of the right length whose sensorType is neither 0x21 nor
\* 0x22 is rejected: the step that reads it adds no point, completes no
\* frame, leaves last_azimuth, the frame in progress and the queue as they
\* are, and the loop goes on with the next packet.
C15_UnknownSensorRejected == [][ReadsUnknownSensor => PacketSkipped]_vars

\* ------------------------------------------------------------ C16

\* C16: for both sensor models, once the constructor has returned the
\* vertical-angle, cosine and sine tables of the base class each have as
\* many entries as the model has lasers, so that every index
\* laser_index % MAX_NUM_LASERS is within all three.
C16_TablesHaveLaserCount ==
    Constructed =>
        /\ MAX_NUM_LASERS = derived
        /\ lut = derived
        /\ lut_cos = derived
        /\ lut_sin = derived

\* ------------------------------------------------------------ C17

\* A capture thread has been spawned and has not returned.
ThreadActive == cap.pc \notin {"none", "done"}

\* A step that sets the transform is taken while no capture thread is active.
TransformSetWhenStopped ==
    transformMatrixPtr' # transformMatrixPtr => ~ThreadActive

\* Every point of the thread was transformed by the matrix configured when
\* the thread was spawned, and by none when none was configured then.
AppliesStartMatrix == cap.applied = 0 \/ cap.applied = cap.configured

\* C17: in every interleaving of open-with-transform, restarts included, with
\* the capture thread, the transform is set only while no capture thread is
\* active, and a thread applies to every point the matrix configured when it
\* was started, or none if none was configured then.
C17_TransformFixedWhileRunning ==
    []AppliesStartMatrix /\ [][TransformSetWhenStopped]_vars

\* ------------------------------------------------------------ C18

\* The step spawns a capture thread.
SpawnsThread == thread' # thread /\ thread' # 0

\* The step writes the laser count or one of the tables.
WritesCalibration ==
    \/ MAX_NUM_LASERS' # MAX_NUM_LASERS
    \/ lut' # lut
    \/ lut_cos' # lut_cos
    \/ lut_sin' # lut_sin

\* C18: on every construction path initialize() has completed before a
\* capture thread is spawned, and the laser count and the tables are not
\* written while a capture thread is active.
C18_CalibrationBeforeSpawn ==
    [][(SpawnsThread => Initialized) /\ (WritesCalibration => ~ThreadActive)]_vars

\* ------------------------------------------------------------ C19

\* run is false while a capture thread has not yet returned.
StopRequested == ~run /\ ThreadActive

\* The thread has left its loop and returned (or the process has ended).
ThreadExited == ~ThreadActive \/ aborted

\* The controller is inside close().
InClose == pc["main"] \in CloseLabels

\* close() has joined the thread, cleared the queue and returned (or the
\* process has ended).
CloseOver == pc["main"] \notin CloseLabels \/ aborted

\* C19: under fair scheduling, once run is false the capture thread leaves
\* its loop and returns, also when it waits in the backpressure loop on a
\* full queue that nobody empties, and a close() that was called completes
\* its join and returns.
C19_StopSucceeds == (StopRequested ~> ThreadExited) /\ (InClose ~> CloseOver)

\* close() has set run false and waits in join while the thread is in the
\* backpressure wait on a full queue, and no frame was ever retrieved.
C19_Witness ==
    /\ pc["main"] = "close_join"
    /\ ~run
    /\ queueLimit > 0
    /\ Len(queue) >= queueLimit
    /\ cap.pc \in {"bp_run", "bp_lock", "bp_size"}
    /\ pc["cons"] = "idle"
    /\ cloud["cons"] = NullCloud

\* ------------------------------------------------------------ C20

\* rotPos[1] - rotPos[0], with 36000 added to a negative difference: twice
\* the interpolated advance the claim names.
WrappedDifference(r0, r1) == IF r1 - r0 < 0 THEN (r1 - r0) + FullTurn ELSE r1 - r0

\* The rotational position of firing block f of the probe's packet.
ProbeRot == IF probe.f = 0 THEN probe.r0 ELSE IF probe.f = 1 THEN probe.r1 ELSE probe.rf

\* C20: for rotational positions within [0, 36000), interpolated is half the
\* wrapped difference of the first two positions and lies in [0, 18000); it
\* is added to the azimuth of the slots j >= laser count only; and after the
\* one subtraction of 36000 the azimuth of every slot, and so last_azimuth,
\* lies in [0, 36000).  (Azimuths are doubled here: [0, 2 * 36000).)
C20_AzimuthInRange ==
    probe.fn = "azimuth" /\ probe.done =>
        /\ probe.out.interpolated = WrappedDifference(probe.r0, probe.r1)
        /\ 0 <= probe.out.interpolated /\ probe.out.interpolated < FullTurn
        /\ probe.j < probe.lasers => probe.out.azimuth = 2 * ProbeRot
        /\ probe.j >= probe.lasers =>
              probe.out.azimuth \in
                  {2 * ProbeRot + probe.out.interpolated,
                   2 * ProbeRot + probe.out.interpolated - 2 * FullTurn}
        /\ 0 <= probe.out.azimuth /\ probe.out.azimuth < 2 * FullTurn
        /\ 0 <= probe.out.last_azimuth /\ probe.out.last_azimuth < 2 * FullTurn

\* Positions 35900 and 100 give interpolated 100.0; added to 35999 in an
\* upper slot it takes the azimuth past 36000 and back to 99.0, which
\* last_azimuth then holds.
C20_Witness ==
    /\ probe.fn = "azimuth" /\ probe.done
    /\ probe.r0 = 35900 /\ probe.r1 = 100 /\ probe.rf = 35999
    /\ probe.f = 2 /\ probe.j >= probe.lasers /\ ~probe.zero
    /\ probe.out.interpolated = 2 * 100
    /\ probe.out.azimuth = 2 * 99
    /\ probe.out.last_azimuth = 2 * 99

\* ------------------------------------------------------------ C21

\* Client t executes queue.front() and queue.pop() in this step: lines
\* 245-246 of retrieve_block, or lines 230-231 of retrieve.
ExecutesFrontPop(t) ==
    \/ pc[t] = "rb_pop" /\ (pc'[t] # "rb_pop" \/ aborted' # aborted)
    \/ pc[t] = "retr_body" /\ cloud'[t] # cloud[t]

\* The frame handed to client t is off the queue and is held by no other
\* client.
DeliveredOnce(t) ==
    /\ \A i \in 1..Len(queue') : queue'[i].id # cloud'[t].id
    /\ \A u \in Clients \ {t} : cloud'[u].id # cloud'[t].id

\* C21: in every interleaving of the consumers' retrieve and retrieve_block
\* calls with the capture thread and close(), front() and pop() are executed
\* under the lock on a queue that is not empty, and the frame they deliver
\* is delivered to that consumer alone.
C21_PopNeverOnEmpty ==
    [][\A t \in Clients :
          ExecutesFrontPop(t) => queue # <<>> /\ ~aborted' /\ DeliveredOnce(t)]_vars

====
